---- MODULE Spec2Model ----
(***************************************************************************)
(* State-machine model of phoenix.db.pg_token: the Token value, the three  *)
(* token sources, CachedTokenProvider's double-checked-locking refresh and *)
(* the process-wide provider holder with its set/clear hooks.              *)
(*                                                                         *)
(* Time is a discrete clock `now`; one unit stands for one second.  Each   *)
(* thread executes the module-level get_token() one shared-memory access   *)
(* at a time, so every interleaving the interpreter can produce between    *)
(* reads and writes of _singleton_provider, self._cached and the lock is   *)
(* a behaviour of the model.                                               *)
(***************************************************************************)
EXTENDS Integers, Sequences, FiniteSets, TLC

\* ------------------------------------------------------------------ bounds
NumThreads == 2
MaxTime == 2
MaxProviders == 2
MaxOps == 3
MaxInstant == 4
MaxSkew == 2
MaxAttempts == 3

\* ------------------------------------------------------- program constants
DefaultSkew == 60
DefaultCmdTimeout == 10
CountingValidity == 2

Threads == 1..NumThreads

\* Python's None for an Optional[datetime]
NoExpiry == -1

\* Python's None for an Optional[Token]; every real Token object has n >= 1,
\* where n is the object's identity: the serial of the source call, on its
\* provider, that created it.
NoneToken == [value |-> "", expires_at |-> NoExpiry, n |-> 0]

\* ------------------------------------------------------------------ Token

\* is_expired with the boundary instant now == expires_at - skew left out
IsExpired_Strict(token, skew_seconds, t) ==
    IF token.expires_at = NoExpiry
    THEN FALSE
    ELSE t > token.expires_at - skew_seconds

\* is_expired with the skew added to the expiry instead of subtracted
IsExpired_SkewAdded(token, skew_seconds, t) ==
    IF token.expires_at = NoExpiry
    THEN FALSE
    ELSE t >= token.expires_at + skew_seconds

\* is_expired taking a Token without expires_at for expired
IsExpired_AbsentIsExpired(token, skew_seconds, t) ==
    IF token.expires_at = NoExpiry
    THEN TRUE
    ELSE t >= token.expires_at - skew_seconds

\* Token.is_expired(skew_seconds), evaluated at clock value t
IsExpired(token, skew_seconds, t) ==
    IF token.expires_at = NoExpiry
    THEN FALSE
    ELSE t >= token.expires_at - skew_seconds

\* ------------------------------------------------------- string conversions

\* str.isdigit() on the configuration strings of the model
IsDigit(s) == s \in {"0", "1", "2", "3", "10", "60"}

\* int(s) for a string of digits
IntOf(s) ==
    CASE s = "0" -> 0
      [] s = "1" -> 1
      [] s = "2" -> 2
      [] s = "3" -> 3
      [] s = "10" -> 10
      [] s = "60" -> 60
      [] OTHER -> 0

\* s.strip().lower() on the auth-mode strings of the model
StripLower(s) ==
    CASE s = "AZURE" -> "azure"
      [] s = " Token-Env " -> "token-env"
      [] s = " Managed " -> "managed"
      [] s = "DEFAULT" -> "default"
      [] OTHER -> s

\* _parse_iso8601: a timestamp string to its UTC instant, None when it does
\* not parse.  "T<h>Z" and naive "T<h>" are UTC, "T<h>+<o>" is o units ahead
\* of UTC.
ParseIso8601(s) ==
    CASE s = "T0Z" -> 0
      [] s = "T1Z" -> 1
      [] s = "T2" -> 2
      [] s = "T3+1" -> 2
      [] s = "T4Z" -> 4
      [] OTHER -> NoExpiry

\* the relative-TTL fallback shared by the three sources:
\* now + int(ttl) if ttl and ttl.isdigit() else None
TtlExpiry(ttl, t) ==
    IF ttl # "" /\ IsDigit(ttl) THEN t + IntOf(ttl) ELSE NoExpiry

\* phoenix.config.get_env_postgres_auth_mode: "azure" when the auth-mode
\* variable is azure in any letter case, else ""
GetEnvPostgresAuthMode(env) ==
    IF StripLower(env.AUTH_MODE) = "azure" THEN "azure" ELSE ""

\* ---------------------------------------------------------------- sources

\* what a source call yields: a Token's fields, or a raised error
Ok(value, expires_at) == [ok |-> TRUE, value |-> value, expires_at |-> expires_at]
Raise == [ok |-> FALSE, value |-> "", expires_at |-> NoExpiry]

\* the Static source falling back to the TTL when the absolute expiry does
\* not parse
EnvGetToken_TtlAfterParseFailure(env, t) ==
    IF env.TOKEN = ""
    THEN Raise
    ELSE IF env.TOKEN_EXPIRES_AT # "" /\ ParseIso8601(env.TOKEN_EXPIRES_AT) # NoExpiry
         THEN Ok(env.TOKEN, ParseIso8601(env.TOKEN_EXPIRES_AT))
         ELSE Ok(env.TOKEN, TtlExpiry(env.TOKEN_TTL_SECONDS, t))

\* the Static source consulting the TTL before the absolute expiry
EnvGetToken_TtlFirst(env, t) ==
    IF env.TOKEN = ""
    THEN Raise
    ELSE IF env.TOKEN_TTL_SECONDS # "" /\ IsDigit(env.TOKEN_TTL_SECONDS)
         THEN Ok(env.TOKEN, TtlExpiry(env.TOKEN_TTL_SECONDS, t))
         ELSE Ok(env.TOKEN, IF env.TOKEN_EXPIRES_AT # ""
                            THEN ParseIso8601(env.TOKEN_EXPIRES_AT)
                            ELSE NoExpiry)

\* EnvTokenProvider.get_token
EnvGetToken(env, t) ==
    IF env.TOKEN = ""
    THEN Raise
    ELSE IF env.TOKEN_EXPIRES_AT # ""
         THEN Ok(env.TOKEN, ParseIso8601(env.TOKEN_EXPIRES_AT))
         ELSE Ok(env.TOKEN, TtlExpiry(env.TOKEN_TTL_SECONDS, t))

\* what subprocess.run can come back with: a timeout, or an exit code and
\* stdout.  stdout is given parsed: json says whether it starts with "{",
\* valid whether json.loads accepts it, token_is_str / expires_is_str whether
\* the payload's fields are strings.
CmdRun(timeout, returncode, json, valid, token_is_str, token, expires_is_str, expires) ==
    [timeout |-> timeout, returncode |-> returncode, json |-> json, valid |-> valid,
     token_is_str |-> token_is_str, token |-> token,
     expires_is_str |-> expires_is_str, expires |-> expires]

CmdRuns ==
    { CmdRun(TRUE, 0, FALSE, FALSE, FALSE, "", FALSE, ""),
      CmdRun(FALSE, 1, FALSE, FALSE, FALSE, "", FALSE, ""),
      CmdRun(FALSE, 0, FALSE, FALSE, TRUE, "tok2", FALSE, ""),
      CmdRun(FALSE, 0, TRUE, TRUE, TRUE, "tok", TRUE, "T4Z") }

\* the Command source without its check for an empty plain output
CommandGetToken_NoEmptyCheck(run, env, t) ==
    IF run.timeout \/ run.returncode # 0
    THEN Raise
    ELSE IF run.json
         THEN IF ~run.valid \/ ~run.token_is_str \/ run.token = ""
              THEN Raise
              ELSE LET parsed == IF run.expires_is_str
                                 THEN ParseIso8601(run.expires)
                                 ELSE NoExpiry
                   IN  Ok(run.token,
                          IF parsed = NoExpiry
                          THEN TtlExpiry(env.TOKEN_TTL_SECONDS, t)
                          ELSE parsed)
         ELSE Ok(run.token, TtlExpiry(env.TOKEN_TTL_SECONDS, t))

\* the Command source without its check of the exit code
CommandGetToken_IgnoresExit(run, env, t) ==
    IF run.timeout
    THEN Raise
    ELSE IF run.json
         THEN IF ~run.valid \/ ~run.token_is_str \/ run.token = ""
              THEN Raise
              ELSE LET parsed == IF run.expires_is_str
                                 THEN ParseIso8601(run.expires)
                                 ELSE NoExpiry
                   IN  Ok(run.token,
                          IF parsed = NoExpiry
                          THEN TtlExpiry(env.TOKEN_TTL_SECONDS, t)
                          ELSE parsed)
         ELSE IF run.token = ""
              THEN Raise
              ELSE Ok(run.token, TtlExpiry(env.TOKEN_TTL_SECONDS, t))

\* CommandTokenProvider.get_token
CommandGetToken(run, env, t) ==
    IF run.timeout \/ run.returncode # 0
    THEN Raise
    ELSE IF run.json
         THEN IF ~run.valid \/ ~run.token_is_str \/ run.token = ""
              THEN Raise
              ELSE LET parsed == IF run.expires_is_str
                                 THEN ParseIso8601(run.expires)
                                 ELSE NoExpiry
                   IN  Ok(run.token,
                          IF parsed = NoExpiry
                          THEN TtlExpiry(env.TOKEN_TTL_SECONDS, t)
                          ELSE parsed)
         ELSE IF run.token = ""
              THEN Raise
              ELSE Ok(run.token, TtlExpiry(env.TOKEN_TTL_SECONDS, t))

\* result.stdout.strip() on the outputs of the model
Strip(s) ==
    CASE s = "tok2\n" -> "tok2"
      [] s = " tok2 " -> "tok2"
      [] s = " \n" -> ""
      [] s = " {\"token\": \"tok\"}\n" -> "{\"token\": \"tok\"}"
      [] OTHER -> s

\* output.startswith("{")
StartsWithBrace(s) ==
    s \in { "{\"token\": \"tok\"}",
            "{\"token\": \"tok\", \"expires_at\": \"T4Z\"}",
            "{\"token\": \"tok\", \"expires_at\": \"not-a-date\"}",
            "{\"token\": \"tok\", \"expires_at\": 7}",
            "{\"token\": \"\"}",
            "{\"token\": 5}",
            "{}",
            "{not json" }

\* json.loads(output) followed by payload.get("token") and
\* payload.get("expires_at"): whether the text is JSON, and the two fields
\* with whether each is a str
JsonLoads(s) ==
    CASE s = "{\"token\": \"tok\"}" ->
             [valid |-> TRUE, token_is_str |-> TRUE, token |-> "tok",
              expires_is_str |-> FALSE, expires |-> ""]
      [] s = "{\"token\": \"tok\", \"expires_at\": \"T4Z\"}" ->
             [valid |-> TRUE, token_is_str |-> TRUE, token |-> "tok",
              expires_is_str |-> TRUE, expires |-> "T4Z"]
      [] s = "{\"token\": \"tok\", \"expires_at\": \"not-a-date\"}" ->
             [valid |-> TRUE, token_is_str |-> TRUE, token |-> "tok",
              expires_is_str |-> TRUE, expires |-> "not-a-date"]
      [] s = "{\"token\": \"tok\", \"expires_at\": 7}" ->
             [valid |-> TRUE, token_is_str |-> TRUE, token |-> "tok",
              expires_is_str |-> FALSE, expires |-> ""]
      [] s = "{\"token\": \"\"}" ->
             [valid |-> TRUE, token_is_str |-> TRUE, token |-> "",
              expires_is_str |-> FALSE, expires |-> ""]
      [] s = "{\"token\": 5}" ->
             [valid |-> TRUE, token_is_str |-> FALSE, token |-> "",
              expires_is_str |-> FALSE, expires |-> ""]
      [] s = "{}" ->
             [valid |-> TRUE, token_is_str |-> FALSE, token |-> "",
              expires_is_str |-> FALSE, expires |-> ""]
      [] OTHER ->
             [valid |-> FALSE, token_is_str |-> FALSE, token |-> "",
              expires_is_str |-> FALSE, expires |-> ""]

\* what CommandTokenProvider.get_token makes of a finished subprocess.run:
\* stdout stripped, then read as JSON when it starts with "{" and taken as
\* the token otherwise
RunOf(timeout, returncode, stdout) ==
    LET output == Strip(stdout)
        payload == JsonLoads(output)
    IN  IF StartsWithBrace(output)
        THEN CmdRun(timeout, returncode, TRUE, payload.valid, payload.token_is_str,
                    payload.token, payload.expires_is_str, payload.expires)
        ELSE CmdRun(timeout, returncode, FALSE, FALSE, TRUE, output, FALSE, "")

\* what the credential's get_token(scope) can come back with: an exception,
\* or an access token whose token / expires_on may be of the wrong type
AzureReply(raises, token_is_str, token, expires_is_num, expires_on) ==
    [raises |-> raises, token_is_str |-> token_is_str, token |-> token,
     expires_is_num |-> expires_is_num, expires_on |-> expires_on]

AzureReplies ==
    { AzureReply(TRUE, FALSE, "", FALSE, 0),
      AzureReply(FALSE, TRUE, "aad", TRUE, 4) }

\* AzureTokenProvider.get_token
AzureGetToken(reply, env, t) ==
    IF reply.raises \/ ~reply.token_is_str \/ reply.token = ""
    THEN Raise
    ELSE Ok(reply.token,
            IF reply.expires_is_num
            THEN reply.expires_on
            ELSE TtlExpiry(env.TOKEN_TTL_SECONDS, t))

\* the tests' _CountingProvider / SlowProvider: tok-<count>, valid for a
\* fixed number of seconds from now
CountingValue(count) ==
    <<"tok-1", "tok-2", "tok-3", "tok-4", "tok-5", "tok-6">>[count]

CountingGetToken(count, t) == Ok(CountingValue(count), t + CountingValidity)

\* the tests' _StaticProvider: a fixed value and no expiry
StaticGetToken == Ok("injected", NoExpiry)

\* a source object: its class and what its constructor fixed
Source(kind, cmd, timeout) == [kind |-> kind, cmd |-> cmd, timeout |-> timeout]

\* the external outcomes a call of the source can meet
Outcomes(source) ==
    CASE source.kind = "cmd" -> {[of |-> "cmd", run |-> r, reply |-> AzureReply(TRUE, FALSE, "", FALSE, 0)] : r \in CmdRuns}
      [] source.kind = "azure" -> {[of |-> "azure", run |-> CmdRun(TRUE, 0, FALSE, FALSE, FALSE, "", FALSE, ""), reply |-> r] : r \in AzureReplies}
      [] OTHER -> {[of |-> "none", run |-> CmdRun(TRUE, 0, FALSE, FALSE, FALSE, "", FALSE, ""), reply |-> AzureReply(TRUE, FALSE, "", FALSE, 0)]}

\* self._provider.get_token() for the source of a provider that has issued
\* `issued` tokens so far
SourceGetToken(source, issued, outcome, env, t) ==
    CASE source.kind = "env" -> EnvGetToken(env, t)
      [] source.kind = "cmd" -> CommandGetToken(outcome.run, env, t)
      [] source.kind = "azure" -> AzureGetToken(outcome.reply, env, t)
      [] source.kind = "counting" -> CountingGetToken(issued + 1, t)
      [] OTHER -> StaticGetToken

\* ---------------------------------------------------------- configuration

\* os.environ as this module reads it, and whether azure.identity imports
Env(mode, token, expires_at, ttl, skew, cmd, cmd_timeout, sdk) ==
    [AUTH_MODE |-> mode, TOKEN |-> token, TOKEN_EXPIRES_AT |-> expires_at,
     TOKEN_TTL_SECONDS |-> ttl, TOKEN_SKEW_SECONDS |-> skew, TOKEN_CMD |-> cmd,
     TOKEN_CMD_TIMEOUT_SECONDS |-> cmd_timeout, azure_identity |-> sdk]

\* the configurations the process is started under or switched to
EnvProfiles ==
    { Env("", "", "", "", "", "", "", FALSE),
      Env("token-env", "abc", "", "2", "1", "", "", FALSE),
      Env("", "xyz", "T1Z", "", "1", "", "", FALSE),
      Env("token-cmd", "", "", "2", "1", "fetch-token", "3", FALSE),
      Env("AZURE", "", "", "", "1", "", "", TRUE),
      Env("azure", "", "", "", "1", "", "", FALSE) }

\* int(skew_env) if skew_env and skew_env.isdigit() else 60
SkewFromEnv(env) ==
    IF env.TOKEN_SKEW_SECONDS # "" /\ IsDigit(env.TOKEN_SKEW_SECONDS)
    THEN IntOf(env.TOKEN_SKEW_SECONDS)
    ELSE DefaultSkew

\* a constructed source, or the constructor's RuntimeError
Built(source) == [ok |-> TRUE, source |-> source]
BuildFailed == [ok |-> FALSE, source |-> Source("none", "", 0)]

\* AzureTokenProvider(): _get_azure_credential raises when azure.identity
\* does not import
AzureInit(env) ==
    IF env.azure_identity THEN Built(Source("azure", "", 0)) ELSE BuildFailed

\* CommandTokenProvider() without the check of the command
CommandInit_Unchecked(env) ==
    Built(Source("cmd", env.TOKEN_CMD,
                 IF env.TOKEN_CMD_TIMEOUT_SECONDS # "" /\ IsDigit(env.TOKEN_CMD_TIMEOUT_SECONDS)
                 THEN IntOf(env.TOKEN_CMD_TIMEOUT_SECONDS)
                 ELSE DefaultCmdTimeout))

\* CommandTokenProvider(): raises without a command; fixes the timeout
CommandInit(env) ==
    IF env.TOKEN_CMD = ""
    THEN BuildFailed
    ELSE Built(Source("cmd", env.TOKEN_CMD,
                      IF env.TOKEN_CMD_TIMEOUT_SECONDS # "" /\ IsDigit(env.TOKEN_CMD_TIMEOUT_SECONDS)
                      THEN IntOf(env.TOKEN_CMD_TIMEOUT_SECONDS)
                      ELSE DefaultCmdTimeout))

\* the command run with the timeout configured at the moment of the call
CommandRunArgs_ReadsEnv(source, env) ==
    [cmd |-> source.cmd,
     timeout |-> IF env.TOKEN_CMD_TIMEOUT_SECONDS # "" /\ IsDigit(env.TOKEN_CMD_TIMEOUT_SECONDS)
                 THEN IntOf(env.TOKEN_CMD_TIMEOUT_SECONDS)
                 ELSE DefaultCmdTimeout]

\* subprocess.run(shlex.split(self._cmd), ..., timeout=self._timeout) of a
\* get_token() called under env: the command and the timeout it is given
CommandRunArgs(source, env) == [cmd |-> source.cmd, timeout |-> source.timeout]

\* EnvTokenProvider(): no constructor of its own, never raises
EnvInit == Built(Source("env", "", 0))

\* None: an argument left out, a variable that is not set
None == "<None>"

\* _DEFAULT_AZURE_PG_SCOPE
DefaultAzureScope == "https://ossrdbms-aad.database.windows.net/.default"

\* the Azure-specific variables of os.environ, and whether azure.identity
\* imports
AzureEnv(scope, auth_mode, client_id, sdk) ==
    [AZURE_SCOPE |-> scope, AZURE_AUTH_MODE |-> auth_mode,
     AZURE_IAM_CLIENT_ID |-> client_id, azure_identity |-> sdk]

\* the truth value Python's `or` tests: None and "" are false
Truthy(s) == s # None /\ s # ""

\* a or b
Or(a, b) == IF Truthy(a) THEN a ELSE b

\* a credential object, or no credential
Credential(kind, client_id) == [kind |-> kind, client_id |-> client_id]
NoCredential == Credential("none", None)

\* _get_azure_credential(mode, client_id): raises when azure.identity does
\* not import
GetAzureCredential(mode, client_id, sdk) ==
    IF ~sdk
    THEN [ok |-> FALSE, credential |-> NoCredential]
    ELSE IF StripLower(mode) = "managed"
    THEN [ok |-> TRUE, credential |-> Credential("managed", client_id)]
    ELSE [ok |-> TRUE, credential |-> Credential("default", None)]

\* the constructor leaving the credential to be made at the first get_token:
\* it never raises
AzureTokenProviderInit_Lazy(scope, credential, auth_mode, client_id, azenv) ==
    [ok |-> TRUE, source |-> Source("azure", "", 0),
     scope |-> IF Truthy(scope) THEN scope
               ELSE IF azenv.AZURE_SCOPE = None THEN DefaultAzureScope
               ELSE azenv.AZURE_SCOPE,
     credential |-> credential]

\* AzureTokenProvider(scope, credential, auth_mode, client_id) under azenv:
\* the source with its scope and credential, or the constructor's error
AzureTokenProviderInit(scope, credential, auth_mode, client_id, azenv) ==
    LET scope0 == IF Truthy(scope) THEN scope
                  ELSE IF azenv.AZURE_SCOPE = None THEN DefaultAzureScope
                  ELSE azenv.AZURE_SCOPE
        mode == StripLower(Or(auth_mode, Or(azenv.AZURE_AUTH_MODE, "default")))
        client_id0 == Or(client_id, Or(azenv.AZURE_IAM_CLIENT_ID, None))
        made == IF credential # NoCredential
                THEN [ok |-> TRUE, credential |-> credential]
                ELSE GetAzureCredential(mode, client_id0, azenv.azure_identity)
    IN  [ok |-> made.ok, source |-> IF made.ok THEN Source("azure", "", 0) ELSE BuildFailed.source,
         scope |-> IF made.ok THEN scope0 ELSE None, credential |-> made.credential]

\* the scope get_token hands to self._credential.get_token
AzureRequestScope(provider, azenv) == provider.scope

\* the selection with the fallback source validated eagerly: no static
\* token, no provider
SelectSource_EagerDefault(env) ==
    LET config_mode == GetEnvPostgresAuthMode(env)
        mode == StripLower(env.AUTH_MODE)
    IN  IF config_mode = "azure" \/ mode = "azure"
        THEN AzureInit(env)
        ELSE IF mode \in {"token-env", "env"}
             THEN EnvInit
             ELSE IF mode \in {"token-cmd", "cmd"}
                  THEN CommandInit(env)
                  ELSE IF env.TOKEN = "" THEN BuildFailed ELSE EnvInit

\* whether _build_provider_from_env logs its "falling back to env provider"
\* warning: in the last branch, when no static token is set
SelectWarns(env) ==
    LET config_mode == GetEnvPostgresAuthMode(env)
        mode == StripLower(env.AUTH_MODE)
    IN  /\ ~(config_mode = "azure" \/ mode = "azure")
        /\ mode \notin {"token-env", "env"}
        /\ mode \notin {"token-cmd", "cmd"}
        /\ env.TOKEN = ""

\* the source selection of _build_provider_from_env
SelectSource(env) ==
    LET config_mode == GetEnvPostgresAuthMode(env)
        mode == StripLower(env.AUTH_MODE)
    IN  IF config_mode = "azure" \/ mode = "azure"
        THEN AzureInit(env)
        ELSE IF mode \in {"token-env", "env"}
             THEN EnvInit
             ELSE IF mode \in {"token-cmd", "cmd"}
                  THEN CommandInit(env)
                  ELSE EnvInit

\* CachedTokenProvider.__init__; issued counts the Tokens the source has
\* returned (it is also the counting source's own count)
NewProvider(source, skew_seconds) ==
    [source |-> source, skew |-> skew_seconds, cached |-> NoneToken, lock |-> 0,
     issued |-> 0]

\* ------------------------------------------------------------------ state

VARIABLES
    now,        \* datetime.now(timezone.utc), in seconds
    environ,    \* os.environ (and the importability of azure.identity)
    ops,        \* how many calls of the module's API and switches of the
                \* configuration were begun
    heap,       \* the CachedTokenProvider objects created so far
    singleton,  \* _singleton_provider: an index into heap, 0 for None
    pc,         \* per thread: the statement of get_token() it is about to run
    self,       \* per thread: the provider its CachedTokenProvider.get_token runs on
    built,      \* per thread: the value of _build_provider_from_env() before it is stored
    token,      \* per thread: the local `token` of CachedTokenProvider.get_token
    ret,        \* per thread: how its last get_token() ended
    hist,       \* per thread: what its current or last call saw and did
    override,   \* the last set_token_provider / clear_token_provider call
    probe,      \* the last direct call of a function of the module: its
                \* arguments and what it returned
    conn        \* the migration connection layer: the engine built and the
                \* connection attempts made through it

vars == <<now, environ, ops, heap, singleton, pc, self, built, token, ret, hist, override,
          probe, conn>>

\* no function was called directly yet
NoProbe == [op |-> "none"]

\* run_migrations_online() has not run yet
NoEngine == [engine |-> "none", attempts |-> 0, calls |-> 0, password |-> "", raised |-> FALSE]

\* skew_seconds=None
NoSkew == -1

\* the (provider, skew_seconds) arguments a test or host gives
\* set_token_provider
Injections ==
    { [provider |-> Source("counting", "", 0), skew_seconds |-> 1],
      [provider |-> Source("static", "", 0), skew_seconds |-> NoSkew] }

InCall(t) == pc[t] # "idle"
Done(t) == pc[t] = "idle" /\ ret[t].status # "none"

\* whether a Token is inside the skew window of its expiry at clock value t
InSkewWindow(tok, skew_seconds, t) ==
    tok.expires_at # NoExpiry /\ tok.expires_at - skew_seconds <= t

\* how a call ended: the Token returned or the error raised, where in the
\* code (via), and whether the Token was inside the skew window of the
\* provider at that moment (stale)
NoReturn == [status |-> "none", token |-> NoneToken, stale |-> FALSE, via |-> "none"]
Returned(tok, via, skew_seconds, t) ==
    [status |-> "ok", token |-> tok, stale |-> InSkewWindow(tok, skew_seconds, t), via |-> via]
Raised(via) == [status |-> "raised", token |-> NoneToken, stale |-> FALSE, via |-> via]

\* the statements, among those between the check of the holder and the
\* assignment to it, that some thread is at
Racing == {pc[t] : t \in Threads} \cap {"g226", "g227", "g227s"}

\* the record a call starts with: current and envSame say that no hook ran
\* and the configuration was not switched since the call began, first that
\* it is the first call begun after the last hook, overlap that another call
\* was in progress during it; fetched counts its source calls
NewHist(t) ==
    [current |-> TRUE, envSame |-> TRUE, startSingleton |-> singleton,
     first |-> override.fresh,
     overlap |-> \E u \in Threads \ {t} : InCall(u),
     fetched |-> 0, didBuild |-> FALSE, entered |-> FALSE,
     startTok |-> NoneToken, startStale |-> FALSE]

Init ==
    /\ now = 0
    /\ environ \in EnvProfiles
    /\ ops = 0
    /\ heap = <<>>
    /\ singleton = 0
    /\ pc = [t \in Threads |-> "idle"]
    /\ self = [t \in Threads |-> 0]
    /\ built = [t \in Threads |-> 0]
    /\ token = [t \in Threads |-> NoneToken]
    /\ ret = [t \in Threads |-> NoReturn]
    /\ hist = [t \in Threads |->
                 [current |-> FALSE, envSame |-> FALSE, startSingleton |-> 0,
                  first |-> FALSE, overlap |-> FALSE,
                  fetched |-> 0, didBuild |-> FALSE, entered |-> FALSE,
                  startTok |-> NoneToken, startStale |-> FALSE]]
    /\ override = [op |-> "none", ref |-> 0, racing |-> {}, fresh |-> FALSE]
    /\ probe = NoProbe
    /\ conn = NoEngine

\* ------------------------------------------------- module-level get_token()

\* a thread calls get_token() / get_token_value()
Call(t) ==
    /\ pc[t] = "idle"
    /\ ops < MaxOps
    /\ ops' = ops + 1
    /\ pc' = [pc EXCEPT ![t] = "g226"]
    /\ hist' = [u \in Threads |->
                  IF u = t THEN NewHist(t)
                  ELSE IF InCall(u) THEN [hist[u] EXCEPT !.overlap = TRUE]
                  ELSE hist[u]]
    /\ ret' = [ret EXCEPT ![t] = NoReturn]
    /\ self' = [self EXCEPT ![t] = 0]
    /\ built' = [built EXCEPT ![t] = 0]
    /\ token' = [token EXCEPT ![t] = NoneToken]
    /\ override' = [override EXCEPT !.fresh = FALSE]
    /\ UNCHANGED <<now, environ, heap, singleton, probe, conn>>

\* get_token() without the None check: it builds on every call
G226_AlwaysBuild(t) ==
    /\ pc[t] = "g226"
    /\ pc' = [pc EXCEPT ![t] = "g227"]
    /\ UNCHANGED <<now, environ, ops, heap, singleton, self, built, token, ret, hist, override, probe, conn>>

\* if _singleton_provider is None:
G226(t) ==
    /\ pc[t] = "g226"
    /\ pc' = [pc EXCEPT ![t] = IF singleton = 0 THEN "g227" ELSE "g228"]
    /\ UNCHANGED <<now, environ, ops, heap, singleton, self, built, token, ret, hist, override, probe, conn>>

\* the build falling back to the Static source when the selected source
\* cannot be constructed
G227_FallsBackToEnv(t) ==
    /\ pc[t] = "g227"
    /\ LET base == SelectSource(environ)
           source == IF base.ok THEN base.source ELSE EnvInit.source
       IN  /\ Len(heap) < MaxProviders
           /\ heap' = Append(heap, NewProvider(source, SkewFromEnv(environ)))
           /\ built' = [built EXCEPT ![t] = Len(heap) + 1]
           /\ pc' = [pc EXCEPT ![t] = "g227s"]
    /\ UNCHANGED <<now, environ, ops, singleton, self, token, ret, hist, override, probe, conn>>

\* _build_provider_from_env(): the value of the right-hand side
G227(t) ==
    /\ pc[t] = "g227"
    /\ LET base == SelectSource(environ)
       IN  IF base.ok
           THEN /\ Len(heap) < MaxProviders
                /\ heap' = Append(heap, NewProvider(base.source, SkewFromEnv(environ)))
                /\ built' = [built EXCEPT ![t] = Len(heap) + 1]
                /\ pc' = [pc EXCEPT ![t] = "g227s"]
                /\ UNCHANGED ret
           ELSE /\ ret' = [ret EXCEPT ![t] = Raised("build")]
                /\ pc' = [pc EXCEPT ![t] = "idle"]
                /\ UNCHANGED <<heap, built>>
    /\ UNCHANGED <<now, environ, ops, singleton, self, token, hist, override, probe, conn>>

\* _singleton_provider = <the provider just built>
G227s(t) ==
    /\ pc[t] = "g227s"
    /\ singleton' = built[t]
    /\ built' = [built EXCEPT ![t] = 0]
    /\ hist' = [hist EXCEPT ![t].didBuild = TRUE]
    /\ pc' = [pc EXCEPT ![t] = "g228"]
    /\ UNCHANGED <<now, environ, ops, heap, self, token, ret, override, probe, conn>>

\* return _singleton_provider.get_token(): the global is read again, and
\* None has no get_token (AttributeError)
G228(t) ==
    /\ pc[t] = "g228"
    /\ IF singleton = 0
       THEN /\ ret' = [ret EXCEPT ![t] = Raised("none")]
            /\ pc' = [pc EXCEPT ![t] = "idle"]
            /\ UNCHANGED <<self, hist>>
       ELSE /\ self' = [self EXCEPT ![t] = singleton]
            /\ hist' = [hist EXCEPT ![t].entered = TRUE,
                                    ![t].startTok = heap[singleton].cached,
                                    ![t].startStale =
                                        InSkewWindow(heap[singleton].cached,
                                                     heap[singleton].skew, now)]
            /\ pc' = [pc EXCEPT ![t] = "c171a"]
            /\ UNCHANGED ret
    /\ UNCHANGED <<now, environ, ops, heap, singleton, built, token, override, probe, conn>>

\* ------------------------------------------ CachedTokenProvider.get_token()

Cached(t) == heap[self[t]].cached
Skew(t) == heap[self[t]].skew

\* a step of thread t that touches only its own pc
Goto(t, label) ==
    /\ pc' = [pc EXCEPT ![t] = label]
    /\ UNCHANGED <<now, environ, ops, heap, singleton, self, built, token, ret, hist, override, probe, conn>>

\* a return of thread t outside the lock
Return(t, result) ==
    /\ ret' = [ret EXCEPT ![t] = result]
    /\ pc' = [pc EXCEPT ![t] = "idle"]
    /\ UNCHANGED <<now, environ, ops, heap, singleton, self, built, token, hist, override, probe, conn>>

\* leaving the `with self._lock:` block of thread t with a result
ReturnUnlock(t, result) ==
    /\ ret' = [ret EXCEPT ![t] = result]
    /\ pc' = [pc EXCEPT ![t] = "idle"]
    /\ heap' = [heap EXCEPT ![self[t]].lock = 0]
    /\ token' = [token EXCEPT ![t] = NoneToken]
    /\ UNCHANGED <<now, environ, ops, singleton, self, built, hist, override, probe, conn>>

\* fast path, `if self._cached`: the first read of the slot
C171a(t) ==
    /\ pc[t] = "c171a"
    /\ Goto(t, IF Cached(t) # NoneToken THEN "c171b" ELSE "c175")

\* fast path, `not self._cached.is_expired(...)`: the second read, and the clock
C171b(t) ==
    /\ pc[t] = "c171b"
    /\ Goto(t, IF ~IsExpired(Cached(t), Skew(t), now) THEN "c173" ELSE "c175")

\* the fast-path return made only once the lock is free
C173_WaitsForLock(t) ==
    /\ pc[t] = "c173"
    /\ heap[self[t]].lock = 0
    /\ Return(t, Returned(Cached(t), "fast", Skew(t), now))

\* fast path, `return self._cached`: the third read
C173(t) ==
    /\ pc[t] = "c173"
    /\ Return(t, Returned(Cached(t), "fast", Skew(t), now))

\* the slow path entered without waiting for the lock
C175_NoLock(t) ==
    /\ pc[t] = "c175"
    /\ heap' = [heap EXCEPT ![self[t]].lock = t]
    /\ pc' = [pc EXCEPT ![t] = "c176a"]
    /\ UNCHANGED <<now, environ, ops, singleton, self, built, token, ret, hist, override, probe, conn>>

\* with self._lock: blocks until the lock is free
C175(t) ==
    /\ pc[t] = "c175"
    /\ heap[self[t]].lock = 0
    /\ heap' = [heap EXCEPT ![self[t]].lock = t]
    /\ pc' = [pc EXCEPT ![t] = "c176a"]
    /\ UNCHANGED <<now, environ, ops, singleton, self, built, token, ret, hist, override, probe, conn>>

\* the slow path in which a caller that finds another caller's refresh of
\* this provider failed raises that failure without calling the source
C176a_SharesFailure(t) ==
    /\ pc[t] = "c176a"
    /\ IF \E u \in Threads \ {t} :
              self[u] = self[t] /\ pc[u] = "idle" /\ ret[u] = Raised("source")
       THEN ReturnUnlock(t, Raised("source"))
       ELSE Goto(t, IF Cached(t) # NoneToken THEN "c176b" ELSE "c179")

\* the slow path without the re-check under the lock
C176a_NoRecheck(t) ==
    /\ pc[t] = "c176a"
    /\ pc' = [pc EXCEPT ![t] = "c179"]
    /\ UNCHANGED <<now, environ, ops, heap, singleton, self, built, token, ret, hist, override, probe, conn>>

\* re-check under the lock, `if self._cached`
C176a(t) ==
    /\ pc[t] = "c176a"
    /\ Goto(t, IF Cached(t) # NoneToken THEN "c176b" ELSE "c179")

\* re-check under the lock, `not self._cached.is_expired(...)`
C176b(t) ==
    /\ pc[t] = "c176b"
    /\ Goto(t, IF ~IsExpired(Cached(t), Skew(t), now) THEN "c178" ELSE "c179")

\* re-check hit: return self._cached, releasing the lock
C178(t) ==
    /\ pc[t] = "c178"
    /\ ReturnUnlock(t, Returned(Cached(t), "recheck", Skew(t), now))

\* token = self._provider.get_token(): the call is made
C179(t) ==
    /\ pc[t] = "c179"
    /\ hist' = [hist EXCEPT ![t].fetched = @ + 1]
    /\ pc' = [pc EXCEPT ![t] = "c179w"]
    /\ UNCHANGED <<now, environ, ops, heap, singleton, self, built, token, ret, override, probe, conn>>

\* the source call comes back, and a failure leaves the lock held
C179w_KeepsLock(t) ==
    /\ pc[t] = "c179w"
    /\ \E outcome \in Outcomes(heap[self[t]].source) :
         LET p == self[t]
             r == SourceGetToken(heap[p].source, heap[p].issued, outcome, environ, now)
         IN  IF r.ok
             THEN /\ token' = [token EXCEPT ![t] =
                                 [value |-> r.value, expires_at |-> r.expires_at,
                                  n |-> heap[p].issued + 1]]
                  /\ heap' = [heap EXCEPT ![p].issued = @ + 1]
                  /\ pc' = [pc EXCEPT ![t] = "c180"]
                  /\ UNCHANGED ret
             ELSE /\ ret' = [ret EXCEPT ![t] = Raised("source")]
                  /\ pc' = [pc EXCEPT ![t] = "idle"]
                  /\ UNCHANGED <<heap, token>>
    /\ UNCHANGED <<now, environ, ops, singleton, self, built, hist, override, probe, conn>>

\* the source call comes back, and a failure is retried under the lock
C179w_Retries(t) ==
    /\ pc[t] = "c179w"
    /\ \E outcome \in Outcomes(heap[self[t]].source) :
         LET p == self[t]
             r == SourceGetToken(heap[p].source, heap[p].issued, outcome, environ, now)
         IN  IF r.ok
             THEN /\ token' = [token EXCEPT ![t] =
                                 [value |-> r.value, expires_at |-> r.expires_at,
                                  n |-> heap[p].issued + 1]]
                  /\ heap' = [heap EXCEPT ![p].issued = @ + 1]
                  /\ pc' = [pc EXCEPT ![t] = "c180"]
             ELSE /\ pc' = [pc EXCEPT ![t] = "c179"]
                  /\ UNCHANGED <<heap, token>>
    /\ UNCHANGED <<now, environ, ops, singleton, self, built, ret, hist, override, probe, conn>>

\* the source call comes back, and on a failure the Token in the slot is
\* returned when its expires_at has not passed yet
C179w_FallsBack(t) ==
    /\ pc[t] = "c179w"
    /\ \E outcome \in Outcomes(heap[self[t]].source) :
         LET p == self[t]
             r == SourceGetToken(heap[p].source, heap[p].issued, outcome, environ, now)
         IN  IF r.ok
             THEN /\ token' = [token EXCEPT ![t] =
                                 [value |-> r.value, expires_at |-> r.expires_at,
                                  n |-> heap[p].issued + 1]]
                  /\ heap' = [heap EXCEPT ![p].issued = @ + 1]
                  /\ pc' = [pc EXCEPT ![t] = "c180"]
                  /\ UNCHANGED ret
             ELSE /\ ret' = [ret EXCEPT ![t] =
                               IF heap[p].cached # NoneToken /\ now < heap[p].cached.expires_at
                               THEN Returned(heap[p].cached, "source", heap[p].skew, now)
                               ELSE Raised("source")]
                  /\ heap' = [heap EXCEPT ![p].lock = 0]
                  /\ pc' = [pc EXCEPT ![t] = "idle"]
                  /\ UNCHANGED token
    /\ UNCHANGED <<now, environ, ops, singleton, self, built, hist, override, probe, conn>>

\* the source call comes back: with a Token, bound to `token`, or with an
\* exception, which leaves the with block and get_token()
C179w(t) ==
    /\ pc[t] = "c179w"
    /\ \E outcome \in Outcomes(heap[self[t]].source) :
         LET p == self[t]
             r == SourceGetToken(heap[p].source, heap[p].issued, outcome, environ, now)
         IN  IF r.ok
             THEN /\ token' = [token EXCEPT ![t] =
                                 [value |-> r.value, expires_at |-> r.expires_at,
                                  n |-> heap[p].issued + 1]]
                  /\ heap' = [heap EXCEPT ![p].issued = @ + 1]
                  /\ pc' = [pc EXCEPT ![t] = "c180"]
                  /\ UNCHANGED ret
             ELSE /\ ret' = [ret EXCEPT ![t] = Raised("source")]
                  /\ heap' = [heap EXCEPT ![p].lock = 0]
                  /\ pc' = [pc EXCEPT ![t] = "idle"]
                  /\ UNCHANGED token
    /\ UNCHANGED <<now, environ, ops, singleton, self, built, hist, override, probe, conn>>

\* the store, made only into an empty slot
C180_StoreIfEmpty(t) ==
    /\ pc[t] = "c180"
    /\ heap' = [heap EXCEPT ![self[t]].cached =
                  IF @ = NoneToken THEN token[t] ELSE @]
    /\ pc' = [pc EXCEPT ![t] = "c182"]
    /\ UNCHANGED <<now, environ, ops, singleton, self, built, token, ret, hist, override, probe, conn>>

\* the store made field by field into the Token in the slot, the expiry
\* left for a later step
C180_InPlace(t) ==
    /\ pc[t] = "c180"
    /\ heap' = [heap EXCEPT ![self[t]].cached =
                  [value |-> token[t].value, expires_at |-> @.expires_at, n |-> token[t].n]]
    /\ pc' = [pc EXCEPT ![t] = "c182"]
    /\ UNCHANGED <<now, environ, ops, singleton, self, built, token, ret, hist, override, probe, conn>>

\* self._cached = token
C180(t) ==
    /\ pc[t] = "c180"
    /\ heap' = [heap EXCEPT ![self[t]].cached = token[t]]
    /\ pc' = [pc EXCEPT ![t] = "c182"]
    /\ UNCHANGED <<now, environ, ops, singleton, self, built, token, ret, hist, override, probe, conn>>

\* return token with the lock still held
C182_KeepsLock(t) ==
    /\ pc[t] = "c182"
    /\ Return(t, Returned(token[t], "refresh", Skew(t), now))

\* return token, releasing the lock
C182(t) ==
    /\ pc[t] = "c182"
    /\ ReturnUnlock(t, Returned(token[t], "refresh", Skew(t), now))

\* ------------------------------------------------------------ the hooks

\* set_token_provider that leaves an existing provider in place
SetTokenProvider_KeepsExisting(provider, skew_seconds) ==
    /\ ops < MaxOps
    /\ ops' = ops + 1
    /\ Len(heap) < MaxProviders
    /\ heap' = Append(heap, NewProvider(provider,
                          IF skew_seconds = NoSkew THEN SkewFromEnv(environ) ELSE skew_seconds))
    /\ singleton' = IF singleton = 0 THEN Len(heap) + 1 ELSE singleton
    /\ override' = [op |-> "set", ref |-> Len(heap) + 1,
                    racing |-> Racing, fresh |-> TRUE]
    /\ hist' = [t \in Threads |-> [hist[t] EXCEPT !.current = FALSE]]
    /\ UNCHANGED <<now, environ, pc, self, built, token, ret, probe, conn>>

\* set_token_provider(provider, skew_seconds=...)
SetTokenProvider(provider, skew_seconds) ==
    /\ ops < MaxOps
    /\ ops' = ops + 1
    /\ Len(heap) < MaxProviders
    /\ heap' = Append(heap, NewProvider(provider,
                          IF skew_seconds = NoSkew THEN SkewFromEnv(environ) ELSE skew_seconds))
    /\ singleton' = Len(heap) + 1
    /\ override' = [op |-> "set", ref |-> Len(heap) + 1,
                    racing |-> Racing, fresh |-> TRUE]
    /\ hist' = [t \in Threads |-> [hist[t] EXCEPT !.current = FALSE]]
    /\ UNCHANGED <<now, environ, pc, self, built, token, ret, probe, conn>>

\* clear_token_provider without its `global` statement: the assignment
\* binds a local name
ClearTokenProvider_NoGlobal ==
    /\ ops < MaxOps
    /\ ops' = ops + 1
    /\ override' = [op |-> "clear", ref |-> 0,
                    racing |-> Racing, fresh |-> TRUE]
    /\ hist' = [t \in Threads |-> [hist[t] EXCEPT !.current = FALSE]]
    /\ UNCHANGED <<now, environ, heap, singleton, pc, self, built, token, ret, probe, conn>>

\* clear_token_provider()
ClearTokenProvider ==
    /\ ops < MaxOps
    /\ ops' = ops + 1
    /\ singleton' = 0
    /\ override' = [op |-> "clear", ref |-> 0,
                    racing |-> Racing, fresh |-> TRUE]
    /\ hist' = [t \in Threads |-> [hist[t] EXCEPT !.current = FALSE]]
    /\ UNCHANGED <<now, environ, heap, pc, self, built, token, ret, probe, conn>>

\* --------------------------------------------------------- the environment

\* a second passes
Tick ==
    /\ now < MaxTime
    /\ now' = now + 1
    /\ UNCHANGED <<environ, ops, heap, singleton, pc, self, built, token, ret, hist, override, probe, conn>>

\* the configuration is switched (monkeypatch.setenv / delenv)
SetEnv(env) ==
    /\ ops < MaxOps
    /\ ops' = ops + 1
    /\ env # environ
    /\ environ' = env
    /\ hist' = [t \in Threads |-> [hist[t] EXCEPT !.envSame = FALSE]]
    /\ UNCHANGED <<now, heap, singleton, pc, self, built, token, ret, override, probe, conn>>

Step(t) ==
    \/ Call(t)
    \/ G226(t)
    \/ G227(t)
    \/ G227s(t)
    \/ G228(t)
    \/ C171a(t)
    \/ C171b(t)
    \/ C173(t)
    \/ C175(t)
    \/ C176a(t)
    \/ C176b(t)
    \/ C178(t)
    \/ C179(t)
    \/ C179w(t)
    \/ C180(t)
    \/ C182(t)

Next ==
    \/ \E t \in Threads : Step(t)
    \/ \E inj \in Injections : SetTokenProvider(inj.provider, inj.skew_seconds)
    \/ ClearTokenProvider
    \/ Tick
    \/ \E env \in EnvProfiles : SetEnv(env)

Spec == Init /\ [][Next]_vars

\* ================================================================ claims

Providers == 1..Len(heap)

\* thread t's last call ran CachedTokenProvider.get_token and has ended
Finished(t) == Done(t) /\ hist[t].entered

\* thread t's call began while a Token was cached and inside the skew window
BeganStale(t) == hist[t].entered /\ hist[t].startTok # NoneToken /\ hist[t].startStale

\* the threads whose source call on provider p is in flight
InFlight(p) == {t \in Threads : pc[t] = "c179w" /\ self[t] = p}

\* C1: on every provider, at most one call of the wrapped source's
\* get_token() is in flight at any time.
C1_AtMostOneInFlight == \A p \in Providers : Cardinality(InFlight(p)) <= 1

\* a source call is in flight while another thread waits for the lock
C1_Witness ==
    \E t, u \in Threads :
        /\ t # u
        /\ self[t] = self[u]
        /\ pc[t] = "c179w"
        /\ pc[u] = "c175"

\* every thread has finished a call on the same provider that began while
\* the same cached Token was inside the skew window
SameWindow ==
    /\ \A t \in Threads : Finished(t) /\ BeganStale(t)
    /\ \A t, u \in Threads : self[t] = self[u] /\ hist[t].startTok = hist[u].startTok

Fetchers == {t \in Threads : hist[t].fetched > 0}

OneRefreshForAll ==
    /\ Cardinality(Fetchers) = 1
    /\ \A t \in Fetchers : hist[t].fetched = 1
    /\ \A t, u \in Threads :
           ret[t].status = "ok" /\ ret[u].status = "ok" /\ ret[t].token = ret[u].token

\* C2 as stated: when all threads call get_token() at overlapping times
\* while the cached Token is expired, the source is called exactly once and
\* all of them receive the same refreshed Token.
C2_Original ==
    (SameWindow /\ \A t \in Threads : hist[t].overlap) => OneRefreshForAll

\* C2, amended: the same, provided every call returned a Token and the
\* Tokens returned are still outside the skew window when the last caller
\* has returned.
C2_OneRefreshWhileFresh ==
    ( /\ SameWindow
      /\ \A t \in Threads :
             /\ ret[t].status = "ok"
             /\ ~InSkewWindow(ret[t].token, Skew(t), now) )
    => OneRefreshForAll

\* all threads called during the same expired window at overlapping times,
\* one refreshed and the others returned its Token
C2_Witness ==
    /\ SameWindow
    /\ \A t \in Threads : hist[t].overlap
    /\ \A t \in Threads : ret[t].status = "ok" /\ ~InSkewWindow(ret[t].token, Skew(t), now)
    /\ \E t \in Threads : ret[t].via = "refresh"
    /\ \E t \in Threads : ret[t].via # "refresh"

\* C3: a call that ends before the cached Token enters the skew window
\* (before D - S has elapsed since the fetch) returns that very Token and
\* calls the source zero times; a call that begins at or after that instant,
\* with no other call in progress, calls the source exactly once and, when
\* the source answers, returns the new Token, the next one issued.
C3_CachedUntilSkewWindow ==
    \A t \in Threads :
        /\ ( /\ Finished(t)
             /\ hist[t].startTok # NoneToken
             /\ ~InSkewWindow(hist[t].startTok, Skew(t), now) )
           => ( /\ ret[t].status = "ok"
                /\ ret[t].token = hist[t].startTok
                /\ hist[t].fetched = 0 )
        /\ (Finished(t) /\ BeganStale(t) /\ ~hist[t].overlap)
           => ( /\ hist[t].fetched = 1
                /\ ret[t].status = "ok" =>
                       /\ ret[t].via = "refresh"
                       /\ ret[t].token.n = hist[t].startTok.n + 1 )

\* a call at the boundary instant now = expires_at - skew has refreshed
C3_Witness ==
    \E t \in Threads :
        /\ Finished(t)
        /\ BeganStale(t)
        /\ ~hist[t].overlap
        /\ hist[t].startTok.expires_at - Skew(t) = now
        /\ ret[t].via = "refresh"
        /\ ret[t].token.n = 2

\* the step of thread t in which its source call fails
SourceFails(t) == pc[t] = "c179w" /\ pc'[t] = "idle"

\* C4: when the source call fails, get_token() raises, the lock is released
\* and the cache slot is what it was (a stale Token or none), so that the
\* next call finds nothing valid cached and calls the source again; the slot
\* is written by nothing but the store after a successful source call.
C4_FailureLeavesCache ==
    [][ /\ \A t \in Threads :
              SourceFails(t) =>
                  /\ ret'[t].status = "raised"
                  /\ heap'[self[t]].lock = 0
                  /\ heap'[self[t]].cached = heap[self[t]].cached
                  /\ \/ heap'[self[t]].cached = NoneToken
                     \/ InSkewWindow(heap'[self[t]].cached, Skew(t), now)
        /\ \A p \in Providers :
              heap'[p].cached # heap[p].cached =>
                  \E t \in Threads :
                      pc[t] = "c180" /\ self[t] = p /\ heap'[p].cached = token[t]
      ]_vars

\* a refresh failed while a stale Token was cached: the Token is still
\* there and the lock is free
C4_Witness ==
    \E t \in Threads :
        /\ Finished(t)
        /\ ret[t].via = "source"
        /\ BeganStale(t)
        /\ heap[self[t]].cached = hist[t].startTok
        /\ heap[self[t]].lock = 0

\* C5 as stated: every Token handed to a caller has a non-empty value and
\* is outside the skew window at the moment it is returned.
C5_NeverStale ==
    \A t \in Threads :
        (Done(t) /\ ret[t].status = "ok") =>
            (ret[t].token.value # "" /\ ~ret[t].stale)

\* a get_token() call that began after the latest set_token_provider() or
\* clear_token_provider()
Current(t) == hist[t].current

\* thread t's call used the provider installed by the latest
\* set_token_provider()
UsesInjected(t) ==
    /\ pc[t] \notin {"g227", "g227s"}
    /\ ~hist[t].didBuild
    /\ hist[t].entered => self[t] = override.ref
    /\ Done(t) => hist[t].entered

\* C6 as stated: after set_token_provider(source, skew), every module-level
\* get_token() call delegates to the provider wrapping that source, until
\* the next set or clear.
C6_Original ==
    override.op = "set" => \A t \in Threads : Current(t) => UsesInjected(t)

\* C6, amended: the same, provided no get_token() call stood between its
\* None check and its assignment of the global when set_token_provider()
\* ran.
C6_InjectedWinsUnlessRaced ==
    (override.op = "set" /\ override.racing \cap {"g227", "g227s"} = {})
    => \A t \in Threads : Current(t) => UsesInjected(t)

\* a call after set_token_provider() returned the injected provider's Token
\* although the provider built before still holds a cached Token
C6_Witness ==
    /\ override.op = "set"
    /\ override.racing \cap {"g227", "g227s"} = {}
    /\ Len(heap) = 2
    /\ override.ref = 2
    /\ heap[1].cached # NoneToken
    /\ \E t \in Threads :
           /\ Current(t)
           /\ Finished(t)
           /\ ret[t].status = "ok"
           /\ self[t] = override.ref

\* thread t made the first get_token() call after clear_token_provider()
\* and that call ended otherwise than by a failed source selection
FirstAfterClear(t) ==
    /\ override.op = "clear"
    /\ Current(t)
    /\ hist[t].first
    /\ Done(t)
    /\ ret[t].via # "build"

\* thread t's call built a provider, from the configuration in force when
\* it is unchanged since, called that provider's source and returned
\* nothing but what that call fetched
Rebuilt(t) ==
    /\ hist[t].didBuild
    /\ hist[t].entered
    /\ self[t] # hist[t].startSingleton
    /\ hist[t].startTok = NoneToken
    /\ hist[t].fetched = 1
    /\ ret[t].status = "ok" => ret[t].via = "refresh" /\ ret[t].token.n = 1
    /\ hist[t].envSame =>
           /\ heap[self[t]].source = SelectSource(environ).source
           /\ heap[self[t]].skew = SkewFromEnv(environ)

C8_BuildOnlyWhenNone ==
    \A t \in Threads :
        /\ (Current(t) /\ ~hist[t].overlap /\ (pc[t] \in {"g227", "g227s"} \/ hist[t].didBuild)) =>
               hist[t].startSingleton = 0
        /\ (Current(t) /\ ~hist[t].overlap /\ hist[t].startSingleton # 0) =>
               /\ pc[t] \notin {"g227", "g227s"}
               /\ ~hist[t].didBuild
               /\ hist[t].entered => self[t] = hist[t].startSingleton
               /\ Done(t) => hist[t].entered

\* a sequential call reused a configuration-built provider although the
\* configuration now selects another source
C8_Witness ==
    \E t \in Threads :
        /\ Current(t)
        /\ ~hist[t].overlap
        /\ Finished(t)
        /\ override.op = "none"
        /\ self[t] = hist[t].startSingleton
        /\ SelectSource(environ).ok
        /\ heap[self[t]].source # SelectSource(environ).source

\* C9: one get_token() invocation calls the wrapped source at most once,
\* whether the source call succeeds or fails, and a fast-path or re-check
\* hit calls it zero times.
C9_NoRetry ==
    \A t \in Threads :
        /\ hist[t].fetched <= 1
        /\ (Done(t) /\ ret[t].via \in {"fast", "recheck"}) => hist[t].fetched = 0
        /\ (Done(t) /\ ret[t].via \in {"refresh", "source"}) => hist[t].fetched = 1

\* a call whose source call failed has ended after that one call
C9_Witness ==
    \E t \in Threads :
        /\ Done(t)
        /\ ret[t].via = "source"
        /\ hist[t].fetched = 1

\* C10: outside the store itself, the cache slot of every provider holds
\* the Token of the latest successful source call, and a call returns the
\* Token cached when it began or one fetched later.
C10_LatestCached ==
    /\ \A p \in Providers :
           /\ heap[p].cached.n <= heap[p].issued
           /\ (\A t \in Threads : ~(pc[t] = "c180" /\ self[t] = p)) =>
                  heap[p].cached.n = heap[p].issued
    /\ \A t \in Threads :
           (Finished(t) /\ ret[t].status = "ok") =>
               /\ ret[t].token.n >= hist[t].startTok.n
               /\ ret[t].token.n <= heap[self[t]].issued

\* after a second refresh one thread returned the new Token it fetched and
\* another returned the same Token from the cache
C10_Witness ==
    \E t, u \in Threads :
        /\ t # u
        /\ self[t] = self[u]
        /\ Finished(t) /\ ret[t].via = "refresh" /\ ret[t].token.n = 2
        /\ Finished(u) /\ ret[u].via \in {"fast", "recheck"} /\ ret[u].token = ret[t].token
        /\ heap[self[t]].cached = ret[t].token

\* ============================================ the functions, called directly

\* the state of the process apart from the record of the direct call
Process == <<now, environ, ops, heap, singleton, pc, self, built, token, ret, hist, override, conn>>

Instants == 0..MaxInstant

\* the Tokens is_expired is called on: with no expiry, or expiring at an instant
ProbeTokens ==
    {[value |-> "abc", expires_at |-> e, n |-> 1] : e \in Instants \cup {NoExpiry}}

\* token.is_expired(skew_seconds) at clock value t
ProbeIsExpired(tok, skew_seconds, t) ==
    /\ probe = NoProbe
    /\ probe' = [op |-> "is_expired", token |-> tok, skew |-> skew_seconds, t |-> t,
                 out |-> IsExpired(tok, skew_seconds, t)]
    /\ UNCHANGED Process

\* the settings the functions are called under
ProbeModes ==
    {"", "azure", "AZURE", "token-env", " Token-Env ", "env", "token-cmd", "cmd", "other"}
ProbeExpiries == {"", "T1Z", "T3+1", "not-a-date"}
ProbeTtls == {"", "2", "abc"}

\* configurations that differ in what selects and constructs a source
SelectEnvs ==
    {Env(m, tk, "", "2", "1", cmd, "3", sdk) :
        m \in ProbeModes, tk \in {"", "abc"}, cmd \in {"", "fetch-token"}, sdk \in BOOLEAN}

\* configurations that differ in what the Static source reads
StaticEnvs ==
    {Env("token-env", tk, ex, ttl, "1", "", "", FALSE) :
        tk \in {"", "abc"}, ex \in ProbeExpiries, ttl \in ProbeTtls}

\* configurations that differ in the TTL the other two sources fall back to
TtlEnvs == {Env("token-cmd", "", "", ttl, "1", "fetch-token", "3", TRUE) : ttl \in ProbeTtls}

\* what the command may print
Stdouts ==
    { "", " \n", "tok2\n", " tok2 ",
      "{\"token\": \"tok\"}",
      " {\"token\": \"tok\"}\n",
      "{\"token\": \"tok\", \"expires_at\": \"T4Z\"}",
      "{\"token\": \"tok\", \"expires_at\": \"not-a-date\"}",
      "{\"token\": \"tok\", \"expires_at\": 7}",
      "{\"token\": \"\"}",
      "{\"token\": 5}",
      "{}",
      "{not json" }

\* what the credential may answer
ProbeReplies ==
    {AzureReply(raises, token_is_str, tk, expires_is_num, 4) :
        raises \in BOOLEAN, token_is_str \in BOOLEAN, tk \in {"", "aad"},
        expires_is_num \in BOOLEAN}

\* get_token() run from start to end with no other thread in between, as
\* inside the coroutine _asyncpg_creator, which does not await during the
\* call: the holder and the providers afterwards, and the Token or the error
GetTokenSeq(outcome_of) ==
    LET base == SelectSource(environ)
        must_build == singleton = 0
        heap1 == IF must_build /\ base.ok
                 THEN Append(heap, NewProvider(base.source, SkewFromEnv(environ)))
                 ELSE heap
        p == IF must_build THEN Len(heap) + 1 ELSE singleton
    IN  IF must_build /\ ~base.ok
        THEN [heap |-> heap, singleton |-> singleton, ok |-> FALSE, token |-> NoneToken,
              called |-> FALSE]
        ELSE IF heap1[p].cached # NoneToken /\ ~IsExpired(heap1[p].cached, heap1[p].skew, now)
        THEN [heap |-> heap1, singleton |-> p, ok |-> TRUE, token |-> heap1[p].cached,
              called |-> FALSE]
        ELSE LET r == SourceGetToken(heap1[p].source, heap1[p].issued,
                                     outcome_of[heap1[p].source.kind], environ, now)
                 tok == [value |-> r.value, expires_at |-> r.expires_at,
                         n |-> heap1[p].issued + 1]
             IN  IF r.ok
                 THEN [heap |-> [heap1 EXCEPT ![p].cached = tok, ![p].issued = @ + 1],
                       singleton |-> p, ok |-> TRUE, token |-> tok, called |-> TRUE]
                 ELSE [heap |-> heap1, singleton |-> p, ok |-> FALSE, token |-> NoneToken,
                       called |-> TRUE]

\* one external outcome for each kind of source
OutcomeChoices ==
    {[kind \in {"env", "cmd", "azure", "counting", "static"} |->
         IF kind = "cmd" THEN c ELSE IF kind = "azure" THEN a
         ELSE CHOOSE o \in Outcomes(Source(kind, "", 0)) : TRUE] :
     c \in Outcomes(Source("cmd", "", 0)), a \in Outcomes(Source("azure", "", 0))}

\* _build_provider_from_env() under env, then get_token() on the source it
\* selected
ProbeBuild(env, t) ==
    /\ probe = NoProbe
    /\ LET out == SelectSource(env)
       IN  \E outcome \in Outcomes(out.source) :
               probe' = [op |-> "build", env |-> env, t |-> t, out |-> out,
                         skew |-> SkewFromEnv(env), warned |-> SelectWarns(env),
                         first |-> IF out.ok
                                   THEN SourceGetToken(out.source, 0, outcome, env, t)
                                   ELSE Raise]
    /\ UNCHANGED Process

\* EnvTokenProvider() or CommandTokenProvider() under env, then get_token()
\* on the source when it was constructed
ProbeInit(kind, env, t) ==
    /\ probe = NoProbe
    /\ LET out == IF kind = "env" THEN EnvInit ELSE CommandInit(env)
       IN  \E outcome \in Outcomes(out.source) :
               probe' = [op |-> "init", kind |-> kind, env |-> env, t |-> t, out |-> out,
                         first |-> IF out.ok
                                   THEN SourceGetToken(out.source, 0, outcome, env, t)
                                   ELSE Raise]
    /\ UNCHANGED Process

\* EnvTokenProvider().get_token() under env at clock value t
ProbeEnvSource(env, t) ==
    /\ probe = NoProbe
    /\ probe' = [op |-> "env", env |-> env, t |-> t, out |-> EnvGetToken(env, t)]
    /\ UNCHANGED Process

\* CommandTokenProvider().get_token() when the command ends this way
ProbeCommand(timeout, returncode, stdout, env, t) ==
    /\ probe = NoProbe
    /\ probe' = [op |-> "cmd", timeout |-> timeout, returncode |-> returncode,
                 stdout |-> stdout, env |-> env, t |-> t,
                 out |-> CommandGetToken(RunOf(timeout, returncode, stdout), env, t)]
    /\ UNCHANGED Process

\* AzureTokenProvider().get_token() when the credential answers this way
ProbeAzure(reply, env, t) ==
    /\ probe = NoProbe
    /\ probe' = [op |-> "azure", reply |-> reply, env |-> env, t |-> t,
                 out |-> AzureGetToken(reply, env, t)]
    /\ UNCHANGED Process

\* the Azure-specific settings the constructor is called under
AzureEnvs ==
    {AzureEnv(scope, auth_mode, client_id, sdk) :
        scope \in {None, "", "env-scope"}, auth_mode \in {None, " Managed ", "other"},
        client_id \in {None, "", "cid-env"}, sdk \in BOOLEAN}

\* what the credential of a constructed source may answer
AzureInitReplies ==
    { AzureReply(TRUE, FALSE, "", FALSE, 0),
      AzureReply(FALSE, FALSE, "", TRUE, 4),
      AzureReply(FALSE, TRUE, "", TRUE, 4),
      AzureReply(FALSE, TRUE, "aad", TRUE, 4) }

\* AzureTokenProvider(scope, credential, auth_mode, client_id) under azenv,
\* then get_token() on the source when it was constructed, the scope
\* variable being changed or not in between
ProbeAzureInit(scope, credential, auth_mode, client_id, azenv, late_scope, reply) ==
    /\ probe = NoProbe
    /\ LET out == AzureTokenProviderInit(scope, credential, auth_mode, client_id, azenv)
           later == IF late_scope THEN [azenv EXCEPT !.AZURE_SCOPE = "late-scope"] ELSE azenv
       IN  probe' = [op |-> "azure_init", scope |-> scope, credential |-> credential,
                     auth_mode |-> auth_mode, client_id |-> client_id, azenv |-> azenv,
                     late_scope |-> late_scope, reply |-> reply, out |-> out,
                     requested |-> IF out.ok THEN AzureRequestScope(out, later) ELSE None,
                     first |-> IF out.ok THEN AzureGetToken(reply, environ, now) ELSE Raise]
    /\ UNCHANGED Process

\* configurations that differ in the command and its timeout
TimeoutEnvs ==
    {Env("token-cmd", "", "", "", "1", cmd, cmd_timeout, FALSE) :
        cmd \in {"", "fetch-token"}, cmd_timeout \in {"", "0", "3", "60", "-1", "abc"}}

\* CommandTokenProvider() under env, then get_token() on it under env and
\* again under the configuration `later`: what subprocess.run was given
ProbeCommandTimeout(env, later) ==
    /\ probe = NoProbe
    /\ LET out == CommandInit(env)
       IN  probe' = [op |-> "cmd_timeout", env |-> env, later |-> later, out |-> out,
                     runs |-> IF out.ok
                              THEN <<CommandRunArgs(out.source, env),
                                     CommandRunArgs(out.source, later)>>
                              ELSE <<>>]
    /\ UNCHANGED Process

\* the module-level get_token() called once, on the empty holder the
\* process starts with
ProbeGetToken(outcome_of) ==
    /\ probe = NoProbe
    /\ LET g == GetTokenSeq(outcome_of)
       IN  /\ heap' = g.heap
           /\ singleton' = g.singleton
           /\ probe' = [op |-> "get_token", ok |-> g.ok, called |-> g.called,
                        token |-> g.token]
    /\ UNCHANGED <<now, environ, ops, pc, self, built, token, ret, hist, override, conn>>

FnNext ==
    \/ /\ probe = NoProbe
       /\ \E tok \in ProbeTokens, skew_seconds \in 0..MaxSkew, t \in Instants :
              ProbeIsExpired(tok, skew_seconds, t)
    \/ /\ probe = NoProbe
       /\ \E env \in SelectEnvs, t \in Instants : ProbeBuild(env, t)
    \/ /\ probe = NoProbe
       /\ \E kind \in {"env", "cmd"}, env \in SelectEnvs, t \in Instants : ProbeInit(kind, env, t)
    \/ /\ probe = NoProbe
       /\ \E env \in StaticEnvs, t \in Instants : ProbeEnvSource(env, t)
    \/ /\ probe = NoProbe
       /\ \E timeout \in BOOLEAN, returncode \in {0, 1}, stdout \in Stdouts,
             env \in TtlEnvs, t \in Instants :
              ProbeCommand(timeout, returncode, stdout, env, t)
    \/ /\ probe = NoProbe
       /\ \E reply \in ProbeReplies, env \in TtlEnvs, t \in Instants : ProbeAzure(reply, env, t)
    \/ /\ probe = NoProbe
       /\ \E scope \in {None, "", "arg-scope"},
             credential \in {NoCredential, Credential("supplied", None)},
             auth_mode \in {None, "managed", "DEFAULT"}, client_id \in {None, "cid-arg"},
             azenv \in AzureEnvs, late_scope \in BOOLEAN, reply \in AzureInitReplies :
              ProbeAzureInit(scope, credential, auth_mode, client_id, azenv, late_scope, reply)
    \/ /\ probe = NoProbe
       /\ \E outcome_of \in OutcomeChoices : ProbeGetToken(outcome_of)
    \/ /\ probe = NoProbe
       /\ \E env \in TimeoutEnvs, later \in TimeoutEnvs : ProbeCommandTimeout(env, later)

FnSpec == Init /\ [][FnNext]_vars

\* C11: is_expired(skew) is false when expires_at is absent; when it is
\* present, is_expired(skew) is true from the instant expires_at - skew on
\* (that instant included) and false before it, for every skew >= 0.
C11_ExpiredIffWithinSkew ==
    probe.op = "is_expired" =>
        /\ probe.token.expires_at = NoExpiry => probe.out = FALSE
        /\ (probe.token.expires_at # NoExpiry /\ probe.t + probe.skew >= probe.token.expires_at)
               => probe.out = TRUE
        /\ (probe.token.expires_at # NoExpiry /\ probe.t + probe.skew < probe.token.expires_at)
               => probe.out = FALSE

\* is_expired was called at the boundary instant, with a positive skew
C11_Witness ==
    /\ probe.op = "is_expired"
    /\ probe.skew > 0
    /\ probe.token.expires_at # NoExpiry
    /\ probe.t = probe.token.expires_at - probe.skew
    /\ probe.out = TRUE

\* thread t is on the fast path of CachedTokenProvider.get_token
OnFastPath(t) == pc[t] \in {"c171a", "c171b", "c173"}

\* thread t can take its next fast-path step in the current state
FastPathReady(t) ==
    /\ pc[t] = "c171a" => ENABLED C171a(t)
    /\ pc[t] = "c171b" => ENABLED C171b(t)
    /\ pc[t] = "c173" => ENABLED C173(t)

\* C12: a caller on the fast path is never blocked, whoever holds the lock,
\* and its return leaves the lock alone; a thread comes to wait for the lock
\* only from a fast-path check that saw no cached Token or an expired one,
\* and the lock is taken only by a thread waiting for it.
C12_FastPathLockFree ==
    /\ [](\A t \in Threads : OnFastPath(t) => FastPathReady(t))
    /\ [][ \A t \in Threads :
             /\ (pc[t] = "c173" /\ pc'[t] # "c173") =>
                    /\ ret'[t].status = "ok"
                    /\ ret'[t].via = "fast"
                    /\ ret'[t].token = Cached(t)
                    /\ heap' = heap
             /\ (pc[t] # "c175" /\ pc'[t] = "c175") =>
                    /\ OnFastPath(t)
                    /\ \/ Cached(t) = NoneToken
                       \/ InSkewWindow(Cached(t), Skew(t), now)
             /\ \A p \in Providers :
                    (heap'[p].lock = t /\ heap[p].lock # t) => (pc[t] = "c175" /\ self[t] = p)
       ]_vars

\* a thread is about to return the valid Token it found while another
\* thread, which found it expired, holds the lock and is calling the source
C12_Witness ==
    \E t, u \in Threads :
        /\ t # u
        /\ self[t] = self[u]
        /\ pc[t] = "c173"
        /\ heap[self[t]].lock = u
        /\ pc[u] = "c179w"

\* tok is the Token one call of provider p's source returns in the current
\* state: value and expires_at of the same answer, with the next serial
FromOneSourceCall(tok, p) ==
    \E outcome \in Outcomes(heap[p].source) :
        LET r == SourceGetToken(heap[p].source, heap[p].issued, outcome, environ, now)
        IN  /\ r.ok
            /\ tok = [value |-> r.value, expires_at |-> r.expires_at, n |-> heap[p].issued + 1]

\* the Tokens of the counting source carry the value of their own serial
Untorn(tok, p) ==
    (tok # NoneToken /\ heap[p].source.kind = "counting") => tok.value = CountingValue(tok.n)

\* C13: the local `token` is bound only to the whole Token of one source
\* call; the cache slot changes only by being set to such a local Token;
\* every Token returned is the slot's Token or the local Token as a whole.
\* So a Token seen anywhere has its value and expires_at from one call.
C13_NoTornToken ==
    /\ [](\A t \in Threads :
              /\ self[t] # 0 => Untorn(token[t], self[t]) /\ Untorn(Cached(t), self[t])
              /\ (Done(t) /\ ret[t].status = "ok") =>
                     /\ ret[t].token # NoneToken
                     /\ Untorn(ret[t].token, self[t]))
    /\ [][ /\ \A t \in Threads :
                 /\ (token'[t] # token[t] /\ token'[t] # NoneToken) =>
                        (pc[t] = "c179w" /\ FromOneSourceCall(token'[t], self[t]))
                 /\ (ret'[t] # ret[t] /\ ret'[t].status = "ok") =>
                        ret'[t].token \in {Cached(t), token[t]}
           /\ \A p \in Providers :
                 heap'[p].cached # heap[p].cached =>
                     \E t \in Threads :
                         pc[t] = "c180" /\ self[t] = p /\ heap'[p].cached = token[t]
       ]_vars

\* a fast-path caller checked one Token and returned the one that replaced
\* it in the slot between its reads
C13_Witness ==
    \E t \in Threads :
        /\ Finished(t)
        /\ ret[t].via = "fast"
        /\ hist[t].startTok # NoneToken
        /\ ret[t].token.n = hist[t].startTok.n + 1
        /\ ret[t].token = Cached(t)

\* =========================================== the migration connection layer

\* run_migrations_online() building the engine for a connection string:
\* the auth mode is read here, once
RunMigrationsOnline(postgres) ==
    /\ conn.engine = "none"
    /\ conn' = [conn EXCEPT !.engine =
                   IF ~postgres THEN "engine_from_config"
                   ELSE IF GetEnvPostgresAuthMode(environ) = "azure" THEN "async_creator"
                   ELSE "connect_args"]
    /\ UNCHANGED <<now, environ, ops, heap, singleton, pc, self, built, token, ret, hist,
                   override, probe>>

\* the creator keeping the password of its first successful attempt
AsyncpgCreator_KeepsPassword ==
    /\ conn.engine = "async_creator"
    /\ conn.attempts < MaxAttempts
    /\ \E outcome_of \in OutcomeChoices :
         LET g == GetTokenSeq(outcome_of)
             kept == conn.attempts > 0 /\ ~conn.raised
         IN  /\ heap' = IF kept THEN heap ELSE g.heap
             /\ singleton' = IF kept THEN singleton ELSE g.singleton
             /\ conn' = [conn EXCEPT !.attempts = @ + 1,
                                     !.calls = IF kept THEN @ ELSE @ + 1,
                                     !.raised = IF kept THEN FALSE ELSE ~g.ok,
                                     !.password = IF kept THEN @
                                                  ELSE IF g.ok THEN g.token.value ELSE ""]
    /\ Len(heap') <= MaxProviders
    /\ UNCHANGED <<now, environ, ops, pc, self, built, token, ret, hist, override, probe>>

\* _asyncpg_creator(): one physical connection attempt; get_token_value()
\* is called and its value is the password given to asyncpg.connect
AsyncpgCreator ==
    /\ conn.engine = "async_creator"
    /\ conn.attempts < MaxAttempts
    /\ \E outcome_of \in OutcomeChoices :
         LET g == GetTokenSeq(outcome_of)
         IN  /\ Len(g.heap) <= MaxProviders
             /\ heap' = g.heap
             /\ singleton' = g.singleton
             /\ conn' = [conn EXCEPT !.attempts = @ + 1,
                                     !.calls = @ + 1,
                                     !.raised = ~g.ok,
                                     !.password = IF g.ok THEN g.token.value ELSE ""]
    /\ UNCHANGED <<now, environ, ops, pc, self, built, token, ret, hist, override, probe>>

ConnNext ==
    \/ \E postgres \in BOOLEAN : RunMigrationsOnline(postgres)
    \/ AsyncpgCreator
    \/ \E inj \in Injections : SetTokenProvider(inj.provider, inj.skew_seconds)
    \/ Tick
    \/ \E env \in EnvProfiles : SetEnv(env)

ConnSpec == Init /\ [][ConnNext]_vars

\* the step is a connection attempt
Attempt == conn'.attempts # conn.attempts

\* the step called the source of the process-wide provider
Refreshed ==
    \/ singleton = 0
    \/ singleton' # singleton
    \/ heap'[singleton'].issued = heap[singleton].issued + 1

\* C14: building the engine calls the accessor zero times and holds no
\* token value; every connection attempt calls get_token_value() once, and
\* when the call returns, the attempt's password is the value of the Token
\* the process-wide provider holds at that moment, which is outside the skew
\* window or was fetched by this very call.
C14_TokenPerAttempt ==
    /\ [](/\ conn.calls = conn.attempts
          /\ conn.attempts = 0 =>
                 /\ conn.password = ""
                 /\ \A p \in Providers : heap[p].issued = 0)
    /\ [][Attempt =>
            /\ conn.engine = "async_creator"
            /\ conn'.attempts = conn.attempts + 1
            /\ conn'.calls = conn.calls + 1
            /\ conn'.raised => conn'.password = ""
            /\ ~conn'.raised =>
                   /\ singleton' # 0
                   /\ heap'[singleton'].cached # NoneToken
                   /\ conn'.password = heap'[singleton'].cached.value
                   /\ \/ ~InSkewWindow(heap'[singleton'].cached, heap'[singleton'].skew, now)
                      \/ Refreshed
       ]_vars

\* the second attempt, made after the first attempt's Token expired, got
\* the refreshed Token's value as its password
C14_Witness ==
    /\ conn.engine = "async_creator"
    /\ conn.attempts = 2
    /\ ~conn.raised
    /\ conn.password = "tok-2"
    /\ singleton # 0
    /\ heap[singleton].cached.n = 2

\* the auth-mode settings by what they ask for
AzureModes == {"azure", "AZURE"}
StaticModes == {"token-env", " Token-Env ", "env"}
CommandModes == {"token-cmd", "cmd"}

\* C15: an azure auth mode selects the Cloud-Identity source and nothing
\* else; a static mode the Static source; a command mode the Command source;
\* any other or no mode the Static source, with a warning exactly when no
\* static token is set, a construction that succeeds, and the failure at
\* the first get_token().
C15_SelectorPrecedence ==
    probe.op = "build" =>
        LET m == probe.env.AUTH_MODE
            out == probe.out
        IN  /\ m \in AzureModes =>
                   /\ out.ok = probe.env.azure_identity
                   /\ out.ok => out.source.kind = "azure"
                   /\ ~probe.warned
            /\ m \in StaticModes =>
                   /\ out.ok
                   /\ out.source.kind = "env"
                   /\ ~probe.warned
            /\ m \in CommandModes =>
                   /\ out.ok = (probe.env.TOKEN_CMD # "")
                   /\ out.ok => out.source.kind = "cmd"
                   /\ ~probe.warned
            /\ m \notin (AzureModes \cup StaticModes \cup CommandModes) =>
                   /\ out.ok
                   /\ out.source.kind = "env"
                   /\ probe.warned = (probe.env.TOKEN = "")
                   /\ probe.env.TOKEN = "" => ~probe.first.ok
                   /\ probe.env.TOKEN # "" =>
                          (probe.first.ok /\ probe.first.value = probe.env.TOKEN)

\* an unrecognized mode and no static token: the Static source was
\* constructed, with the warning, and its first get_token() failed
C15_Witness ==
    /\ probe.op = "build"
    /\ probe.env.AUTH_MODE = "other"
    /\ probe.env.TOKEN = ""
    /\ probe.env.TOKEN_CMD # ""
    /\ probe.out.ok
    /\ probe.out.source.kind = "env"
    /\ probe.warned
    /\ ~probe.first.ok

\* C16 as stated: constructing the Static source with no static token set
\* fails, and constructing the Command source with no command set fails,
\* before any get_token() call.
C16_Original ==
    probe.op = "init" =>
        /\ (probe.kind = "env" /\ probe.env.TOKEN = "") => ~probe.out.ok
        /\ (probe.kind = "cmd" /\ probe.env.TOKEN_CMD = "") => ~probe.out.ok

\* C16, amended: constructing the Command source with no command set fails;
\* constructing the Static source always succeeds, and with no static token
\* set it is the source's get_token() that fails.
C16_CommandFailsFastStaticLate ==
    probe.op = "init" =>
        /\ probe.kind = "cmd" => probe.out.ok = (probe.env.TOKEN_CMD # "")
        /\ probe.kind = "env" =>
               /\ probe.out.ok
               /\ probe.first.ok = (probe.env.TOKEN # "")

\* the Static source was constructed with no static token set and its
\* get_token() failed
C16_Witness ==
    /\ probe.op = "init"
    /\ probe.kind = "env"
    /\ probe.env.TOKEN = ""
    /\ probe.out.ok
    /\ ~probe.first.ok

\* a direct call of one of the three built-in sources' get_token()
SourceProbe == probe.op \in {"env", "cmd", "azure"}

\* C17: whatever the configuration and the backend's answer, a built-in
\* source's get_token() returns a Token with a non-empty value or raises;
\* an empty static token, an empty output and an empty credential token
\* each raise.
C17_NoEmptyValue ==
    /\ SourceProbe =>
           /\ probe.out.ok => probe.out.value # ""
           /\ (probe.op = "env" /\ probe.env.TOKEN = "") => ~probe.out.ok
           /\ (probe.op = "cmd" /\ probe.stdout \in {"", " \n", "{\"token\": \"\"}"})
                  => ~probe.out.ok
           /\ (probe.op = "azure" /\ probe.reply.token = "") => ~probe.out.ok
    /\ probe.op \in {"build", "init"} => (probe.first.ok => probe.first.value # "")

\* the command exited 0 with blank output and get_token() raised
C17_Witness ==
    /\ probe.op = "cmd"
    /\ ~probe.timeout
    /\ probe.returncode = 0
    /\ probe.stdout = " \n"
    /\ ~probe.out.ok

\* now + the configured TTL when it is a string of digits, else no expiry
ExpectedTtlExpiry ==
    IF probe.env.TOKEN_TTL_SECONDS = "2" THEN probe.t + 2 ELSE NoExpiry

\* the Static source was given, or the command printed, an expiry that is
\* no timestamp, and nothing else stood in the way of a Token
StaticUnparseable ==
    probe.op = "env" /\ probe.env.TOKEN # "" /\ probe.env.TOKEN_EXPIRES_AT = "not-a-date"
CommandUnparseable ==
    /\ probe.op = "cmd"
    /\ ~probe.timeout
    /\ probe.returncode = 0
    /\ probe.stdout = "{\"token\": \"tok\", \"expires_at\": \"not-a-date\"}"

\* C18 as stated: with an unparseable expiry the Token returned has the
\* fetched value and no expiry, for the Static and for the Command source,
\* whatever the TTL setting.
C18_Original ==
    /\ StaticUnparseable =>
           (probe.out.ok /\ probe.out.value = probe.env.TOKEN /\ probe.out.expires_at = NoExpiry)
    /\ CommandUnparseable =>
           (probe.out.ok /\ probe.out.value = "tok" /\ probe.out.expires_at = NoExpiry)

\* C18, amended: with an unparseable expiry the Token is still returned
\* with the fetched value; the Static source gives it no expiry whatever the
\* TTL setting; the Command source gives it the expiry it gives a Token
\* without expires_at: now + TTL when a TTL of digits is set, else none.
C18_UnparseableExpiryNonFatal ==
    /\ StaticUnparseable =>
           (probe.out.ok /\ probe.out.value = probe.env.TOKEN /\ probe.out.expires_at = NoExpiry)
    /\ CommandUnparseable =>
           (probe.out.ok /\ probe.out.value = "tok" /\ probe.out.expires_at = ExpectedTtlExpiry)

\* the command printed an unparseable expires_at while a TTL was set, and
\* the Token expires at now + TTL
C18_Witness ==
    /\ CommandUnparseable
    /\ probe.env.TOKEN_TTL_SECONDS = "2"
    /\ probe.out.ok
    /\ probe.out.expires_at = probe.t + 2

\* the UTC instant of each absolute expiry setting, none when it is no
\* timestamp
ExpectedInstant ==
    CASE probe.env.TOKEN_EXPIRES_AT = "T1Z" -> 1
      [] probe.env.TOKEN_EXPIRES_AT = "T3+1" -> 2
      [] OTHER -> NoExpiry

\* C19: the Static source's Token expires at the absolute expiry's UTC
\* instant, or never when that setting does not parse, whenever the setting
\* is present, the TTL playing no part; else at now + TTL when the TTL is a
\* string of digits; else never.
C19_StaticExpiryPriority ==
    (probe.op = "env" /\ probe.env.TOKEN # "") =>
        /\ probe.out.ok
        /\ probe.out.value = probe.env.TOKEN
        /\ probe.env.TOKEN_EXPIRES_AT # "" => probe.out.expires_at = ExpectedInstant
        /\ probe.env.TOKEN_EXPIRES_AT = "" => probe.out.expires_at = ExpectedTtlExpiry

\* both settings were present and the absolute expiry, given with an
\* offset, decided
C19_Witness ==
    /\ probe.op = "env"
    /\ probe.env.TOKEN # ""
    /\ probe.env.TOKEN_EXPIRES_AT = "T3+1"
    /\ probe.env.TOKEN_TTL_SECONDS = "2"
    /\ probe.out.expires_at = 2
    /\ probe.t + 2 # 2

\* the outputs that hold a token once trimmed, by how they hold it
PlainTokenStdouts == {"tok2\n", " tok2 "}
JsonTokenStdouts ==
    { "{\"token\": \"tok\"}",
      " {\"token\": \"tok\"}\n",
      "{\"token\": \"tok\", \"expires_at\": \"T4Z\"}",
      "{\"token\": \"tok\", \"expires_at\": \"not-a-date\"}",
      "{\"token\": \"tok\", \"expires_at\": 7}" }

\* C20: the Command source returns a Token exactly when the command exited
\* 0 within the timeout and its trimmed output is a plain non-empty token or
\* a JSON object with a non-empty string token, whose value is then that
\* token; every other ending raises, and no Token's value is the JSON text.
C20_CommandTokenOnlyOnSuccess ==
    probe.op = "cmd" =>
        /\ probe.out.ok =
               /\ ~probe.timeout
               /\ probe.returncode = 0
               /\ probe.stdout \in PlainTokenStdouts \cup JsonTokenStdouts
        /\ probe.out.ok =>
               /\ probe.stdout \in PlainTokenStdouts => probe.out.value = "tok2"
               /\ probe.stdout \in JsonTokenStdouts => probe.out.value = "tok"

\* the command exited 0 in time with output that starts with "{" and is no
\* JSON, and get_token() raised
C20_Witness ==
    /\ probe.op = "cmd"
    /\ ~probe.timeout
    /\ probe.returncode = 0
    /\ probe.stdout = "{not json"
    /\ ~probe.out.ok

\* C21: an Azure source constructed with no credential object while
\* azure.identity does not import fails in the constructor, so no get_token
\* of it is ever called; with auth mode azure and no SDK the module-level
\* get_token() fails in the build, builds no provider and calls no source.
\* Constructed with a credential object the constructor succeeds with or
\* without the SDK, and get_token() raises the one wrapped error exactly
\* when the credential raises or answers a token that is not a non-empty
\* string.
AzureSelected(env) == GetEnvPostgresAuthMode(env) = "azure"

BadReply(reply) == reply.raises \/ ~reply.token_is_str \/ reply.token = ""

C21_AzureFailsAtConstruction ==
    /\ (probe.op = "azure_init" /\ probe.credential = NoCredential
            /\ ~probe.azenv.azure_identity)
        => (~probe.out.ok /\ probe.first = Raise)
    /\ (probe.op = "azure_init" /\ probe.credential # NoCredential)
        => /\ probe.out.ok
           /\ probe.out.credential = probe.credential
           /\ BadReply(probe.reply) <=> probe.first = Raise
           /\ ~BadReply(probe.reply) <=> probe.first.ok
    /\ (probe.op = "build" /\ AzureSelected(probe.env) /\ ~probe.env.azure_identity)
        => ~probe.out.ok
    /\ (probe.op = "get_token" /\ AzureSelected(environ) /\ ~environ.azure_identity)
        => (~probe.ok /\ ~probe.called /\ heap = <<>> /\ singleton = 0)

C21_Witness ==
    /\ probe.op = "azure_init"
    /\ probe.credential = NoCredential /\ ~probe.azenv.azure_identity
    /\ probe.auth_mode = "managed" /\ probe.client_id = "cid-arg"
    /\ ~probe.out.ok

\* a Token with no expires_at
NeverExpires(tok) == tok # NoneToken /\ tok.expires_at = NoExpiry

\* C22: once the slot of a provider holds a Token without expires_at, no
\* thread is at the source call of that provider or past it, the slot and
\* the count of Tokens the source issued never change again, and every call
\* that finds that Token returns it with no source call, at any clock value
\* and under any configuration.
C22_NoExpiryNeverRefreshed ==
    /\ [](\A p \in Providers :
              NeverExpires(heap[p].cached) =>
                  /\ heap[p].issued = heap[p].cached.n
                  /\ \A t \in Threads :
                         self[t] = p => pc[t] \notin {"c179", "c179w", "c180"})
    /\ [](\A t \in Threads :
              (Finished(t) /\ NeverExpires(hist[t].startTok)) =>
                  /\ ret[t].status = "ok"
                  /\ ret[t].token = hist[t].startTok
                  /\ hist[t].fetched = 0)
    /\ [][\A p \in Providers :
              NeverExpires(heap[p].cached) =>
                  /\ heap'[p].cached = heap[p].cached
                  /\ heap'[p].issued = heap[p].issued]_vars

\* a Token fetched by the command source while no TTL was configured is
\* returned from the slot at a later clock value, after the configuration
\* lost the command
C22_Witness ==
    \E t \in Threads :
        /\ Finished(t)
        /\ NeverExpires(hist[t].startTok)
        /\ heap[self[t]].source.kind = "cmd"
        /\ environ.TOKEN_CMD = ""
        /\ now > 0
        /\ ret[t].via = "fast"
        /\ ret[t].token = hist[t].startTok

\* ==================================================== under fair scheduling

\* a step of thread t inside a call
Running(t) == InCall(t) /\ Step(t)

\* the threads calling get_token() while the clock advances, no hook being
\* called and the configuration staying what the process started with
LiveNext ==
    \/ \E t \in Threads : Step(t)
    \/ Tick

\* every thread that is inside a call and can take a step eventually takes
\* one; nothing obliges a caller to call
LiveSpec == Init /\ [][LiveNext]_vars /\ \A t \in Threads : WF_vars(Running(t))

\* the statements of CachedTokenProvider.get_token, and those inside its
\* `with self._lock:` block
InGetToken == {"c171a", "c171b", "c173", "c175", "c176a", "c176b", "c178", "c179",
               "c179w", "c180", "c182"}
InLock == {"c176a", "c176b", "c178", "c179", "c179w", "c180", "c182"}

\* the step in which thread t leaves the `with` block of its provider
LeavesLock(t) == pc[t] \in InLock /\ pc'[t] \notin InLock

\* C23: every thread inside CachedTokenProvider.get_token() eventually is
\* out of it, with a Token returned or an error raised; the lock of a
\* provider is held only by a thread that is inside the `with` block of
\* that provider, so it is free when no call is in progress; and each of
\* the three ways out of the block (re-check hit, refresh, source failure)
\* releases it.
C23_EveryCallEnds ==
    /\ \A t \in Threads :
           (pc[t] \in InGetToken) ~> (pc[t] = "idle" /\ ret[t].status \in {"ok", "raised"})
    /\ [](\A p \in Providers :
              /\ heap[p].lock # 0 =>
                     (self[heap[p].lock] = p /\ pc[heap[p].lock] \in InLock)
              /\ \A t \in Threads :
                     (self[t] = p /\ pc[t] \in InLock) => heap[p].lock = t)
    /\ [][\A t \in Threads :
              LeavesLock(t) =>
                  /\ pc[t] \in {"c178", "c179w", "c182"}
                  /\ pc'[t] = "idle"
                  /\ ret'[t].via \in {"recheck", "source", "refresh"}
                  /\ heap'[self[t]].lock = 0]_vars

\* a caller that had to wait for the lock, held by a caller whose source
\* call failed, has ended as well, and the lock is free
C23_Witness ==
    \E t, u \in Threads :
        /\ t # u /\ self[t] = self[u]
        /\ Finished(t) /\ ret[t].via = "source"
        /\ Finished(u) /\ hist[u].overlap /\ ret[u].via \in {"recheck", "refresh", "source"}
        /\ heap[self[t]].lock = 0

\* a call of thread t that began while the holder was empty, ran while
\* another call was in progress, and during which no hook ran
ConcurrentFirstUse(t) ==
    /\ Done(t) /\ Current(t)
    /\ hist[t].startSingleton = 0
    /\ hist[t].overlap

\* C24 as stated: of the calls of get_token() made concurrently while the
\* holder is empty, exactly one builds a provider, all of them delegate to
\* that provider, and when they all return Tokens still outside the skew
\* window the source was called once in total.
C24_OneBuildOnFirstUse ==
    \A t, u \in Threads :
        (t # u /\ ConcurrentFirstUse(t) /\ ConcurrentFirstUse(u)
             /\ hist[t].entered /\ hist[u].entered) =>
            /\ ~(hist[t].didBuild /\ hist[u].didBuild)
            /\ self[t] = self[u]
            /\ ( /\ ret[t].status = "ok" /\ ~InSkewWindow(ret[t].token, Skew(t), now)
                 /\ ret[u].status = "ok" /\ ~InSkewWindow(ret[u].token, Skew(u), now) )
               => hist[t].fetched + hist[u].fetched = 1

\* a Token inside the skew window whose expires_at has not passed at t
NearlyExpired(tok, skew_seconds, t) ==
    /\ tok # NoneToken
    /\ tok.expires_at # NoExpiry
    /\ tok.expires_at - skew_seconds <= t
    /\ t < tok.expires_at

\* C25: when the source call fails while the Token in the slot is inside
\* the skew window but its expires_at has not passed, get_token() raises:
\* the caller gets no Token, and the Token stays in the slot.
C25_NoFallbackInSkewWindow ==
    /\ [][\A t \in Threads :
              (SourceFails(t) /\ NearlyExpired(Cached(t), Skew(t), now)) =>
                  /\ ret'[t] = Raised("source")
                  /\ heap'[self[t]].cached = heap[self[t]].cached]_vars
    /\ [](\A t \in Threads :
              (Finished(t) /\ ret[t].via = "source") =>
                  (ret[t].status = "raised" /\ ret[t].token = NoneToken))

\* a refresh has failed and the Token it found, still in the slot, has not
\* reached its expires_at
C25_Witness ==
    \E t \in Threads :
        /\ Finished(t)
        /\ ret[t] = Raised("source")
        /\ NearlyExpired(hist[t].startTok, Skew(t), now)
        /\ heap[self[t]].cached = hist[t].startTok

\* the source of the provider of thread t has issued no Token since the
\* call of t found the slot
NoSuccessSince(t) == heap[self[t]].issued = hist[t].startTok.n

\* C26: an error raised by CachedTokenProvider.get_token() is always that
\* of the caller's own single source call; a call that found the slot empty
\* or expired and during which the source issued nothing has made one
\* source call and raised; and no two source calls of one provider are in
\* progress together.  So N callers of a window in which the source always
\* fails make N source calls, one after the other, and get N errors.
C26_FailureNotShared ==
    /\ \A t \in Threads :
           (Finished(t) /\ ret[t].status = "raised") =>
               (ret[t].via = "source" /\ hist[t].fetched = 1)
    /\ \A t \in Threads :
           ( /\ Finished(t)
             /\ hist[t].startTok = NoneToken \/ hist[t].startStale
             /\ NoSuccessSince(t) )
           => (ret[t] = Raised("source") /\ hist[t].fetched = 1)
    /\ \A p \in Providers : Cardinality(InFlight(p)) <= 1

\* two overlapping calls found the same expired Token, the source failed
\* for both, and each made its own call
C26_Witness ==
    \E t, u \in Threads :
        /\ t # u /\ self[t] = self[u]
        /\ Finished(t) /\ BeganStale(t) /\ hist[t].overlap
        /\ Finished(u) /\ BeganStale(u) /\ hist[u].overlap
        /\ hist[t].startTok = hist[u].startTok
        /\ ret[t] = Raised("source") /\ hist[t].fetched = 1
        /\ ret[u] = Raised("source") /\ hist[u].fetched = 1
        /\ heap[self[t]].cached = hist[t].startTok

\* the step of thread t that evaluates _build_provider_from_env()
Builds(t) == pc[t] = "g227" /\ pc'[t] # "g227"

\* C27: when the source selected by the configuration cannot be
\* constructed, the build step of get_token() raises to the caller and
\* leaves the holder and the providers as they were, no provider having
\* been entered and no source called; a call that finds the holder empty
\* always goes on to the build, and a build that succeeds makes the
\* provider the configuration of that moment selects.
C27_FailedBuildLeavesHolderEmpty ==
    /\ [][\A t \in Threads :
              (Builds(t) /\ ~SelectSource(environ).ok) =>
                  /\ ret'[t] = Raised("build")
                  /\ pc'[t] = "idle"
                  /\ singleton' = singleton
                  /\ heap' = heap]_vars
    /\ [][\A t \in Threads :
              (Builds(t) /\ SelectSource(environ).ok) =>
                  /\ pc'[t] = "g227s"
                  /\ heap'[built'[t]].source = SelectSource(environ).source
                  /\ heap'[built'[t]].skew = SkewFromEnv(environ)
                  /\ heap'[built'[t]].cached = NoneToken]_vars
    /\ [][\A t \in Threads :
              (pc[t] = "g226" /\ pc'[t] # "g226") =>
                  pc'[t] = IF singleton = 0 THEN "g227" ELSE "g228"]_vars
    /\ [](\A t \in Threads :
              (Done(t) /\ ret[t].via = "build") =>
                  /\ ret[t].status = "raised"
                  /\ hist[t].startSingleton = 0 \/ hist[t].overlap \/ ~Current(t)
                  /\ ~hist[t].entered /\ ~hist[t].didBuild /\ hist[t].fetched = 0)

\* a call failed in the build under a configuration that was switched
\* afterwards, and a later call, alone, built the provider of the new
\* configuration and installed it
C27_Witness ==
    \E t, u \in Threads :
        /\ t # u
        /\ Done(u) /\ ret[u] = Raised("build") /\ ~hist[u].envSame /\ ~hist[u].overlap
        /\ Finished(t) /\ hist[t].didBuild /\ hist[t].envSame /\ ~hist[t].overlap
        /\ hist[t].startSingleton = 0
        /\ singleton = self[t]
        /\ heap[self[t]].source = SelectSource(environ).source

\* the timeout a configuration asks for: its value when it is a string of
\* digits, otherwise 10
ExpectedTimeout(env) ==
    CASE env.TOKEN_CMD_TIMEOUT_SECONDS = "0" -> 0
      [] env.TOKEN_CMD_TIMEOUT_SECONDS = "3" -> 3
      [] env.TOKEN_CMD_TIMEOUT_SECONDS = "60" -> 60
      [] OTHER -> 10

\* C28: a command source constructed under a configuration runs its
\* command, on every get_token(), with the timeout that configuration asked
\* for (its value when a string of digits, otherwise 10) and with the
\* command it named, whatever the configuration is at the time of the call.
C28_TimeoutFixedAtConstruction ==
    probe.op = "cmd_timeout" =>
        /\ probe.out.ok <=> probe.env.TOKEN_CMD # ""
        /\ probe.out.ok =>
               /\ Len(probe.runs) = 2
               /\ \A i \in 1..2 :
                      /\ probe.runs[i].timeout = ExpectedTimeout(probe.env)
                      /\ probe.runs[i].cmd = probe.env.TOKEN_CMD

\* a source constructed with timeout 3 still runs with 3 after the
\* configuration changed to 60
C28_Witness ==
    /\ probe.op = "cmd_timeout"
    /\ probe.env.TOKEN_CMD_TIMEOUT_SECONDS = "3"
    /\ probe.later.TOKEN_CMD_TIMEOUT_SECONDS = "60"
    /\ probe.out.ok
    /\ probe.runs[2].timeout = 3

\* the identity mode asked for is 'managed'
ManagedAsked(p) ==
    \/ p.auth_mode = "managed"
    \/ p.auth_mode = None /\ p.azenv.AZURE_AUTH_MODE = " Managed "

\* C29 as stated: the scope a constructed Azure source requests is the
\* scope argument when one is given, else the configured scope when one is
\* configured, else the default scope, whatever the configuration is at the
\* time of the call; and, no credential object being supplied, mode
\* 'managed' makes the managed-identity credential with the client id
\* argument, else the configured client id, else none, while any other mode
\* makes the default credential chain.
C29_ScopeAndCredential ==
    (probe.op = "azure_init" /\ probe.out.ok) =>
        /\ probe.requested =
               IF probe.scope \notin {None, ""} THEN probe.scope
               ELSE IF probe.azenv.AZURE_SCOPE \notin {None, ""} THEN probe.azenv.AZURE_SCOPE
               ELSE "https://ossrdbms-aad.database.windows.net/.default"
        /\ probe.credential = NoCredential =>
               probe.out.credential =
                   IF ManagedAsked(probe)
                   THEN Credential("managed",
                                   IF probe.client_id # None THEN probe.client_id
                                   ELSE IF probe.azenv.AZURE_IAM_CLIENT_ID \notin {None, ""}
                                   THEN probe.azenv.AZURE_IAM_CLIENT_ID
                                   ELSE None)
                   ELSE Credential("default", None)

====
